---- MODULE Spec2Model ----
(***************************************************************************)
(* Sentarr log monitoring and alerting engine (src/app/monitor.py):        *)
(* AlertManager (cooldown gate, channel fan-out) and PlexLogMonitor        *)
(* (de-duplication, classification, sliding error window, run loop).       *)
(*                                                                         *)
(* Time is counted in ticks of 60 seconds; the wall clock never runs       *)
(* backwards, and the readings of datetime.now() made while one line is    *)
(* handled fall in one tick.  A log line is a sequence of words; a regex   *)
(* alternative "HEAD.*TAIL" matches a line when a word containing HEAD is  *)
(* followed, later in the line, by a word containing TAIL, letter case     *)
(* ignored.                                                                *)
(***************************************************************************)
EXTENDS Integers, Sequences, FiniteSets, TLC

(***************************************************************************)
(* Bounds of the model.                                                    *)
(***************************************************************************)
\* the wall clock stops advancing at this tick
MaxClock == 4
\* the same for the burst scenario, whose window is 5 minutes long
BurstClock == 6
\* the same for the classification scenario
ClassifyClock == 1
\* ticks that may elapse while one line is handled
MaxDrift == 1
\* stands for the 10000 of parse_log_line: processed_lines is cleared when
\* it holds more than this many hashes
MaxProcessedLines == 2
\* hash(line) ranges over 0 .. HashSpace-1 (stands for Python's 64-bit hash)
HashSpace == 11
\* a window is not fed once it holds error_threshold + MaxExcess timestamps
MaxExcess == 1

VARIABLES
    pc,                 \* position of main()/run(): init, discover, tailing, crashing, done
    clock,              \* the wall clock, what datetime.now() returns
    email_enabled,      \* AlertManager.email_enabled
    discord_enabled,    \* AlertManager.discord_enabled
    slack_enabled,      \* AlertManager.slack_enabled
    webhook_enabled,    \* AlertManager.webhook_enabled
    alert_cooldown,     \* AlertManager.alert_cooldown (minutes)
    last_alerts,        \* AlertManager.last_alerts: alert key -> time of last dispatch
    monitor_errors,     \* PlexLogMonitor.monitor_errors
    monitor_warnings,   \* PlexLogMonitor.monitor_warnings
    error_threshold,    \* PlexLogMonitor.error_threshold
    time_window,        \* PlexLogMonitor.time_window (minutes)
    error_counts,       \* PlexLogMonitor.error_counts: pattern -> list of timestamps
    processed_lines,    \* PlexLogMonitor.processed_lines: set of line hashes
    unread,             \* the lines that were in the log file when the monitor
                        \* started and lie after the read position
    ev                  \* the last step: the line read, the entry parse_log_line
                        \* returned (at is its timestamp), what
                        \* check_error_threshold did and the alert handed to
                        \* send_alert with the channel deliveries attempted

config == <<email_enabled, discord_enabled, slack_enabled, webhook_enabled,
            alert_cooldown, monitor_errors, monitor_warnings, error_threshold,
            time_window>>

vars == <<pc, clock, email_enabled, discord_enabled, slack_enabled, webhook_enabled,
          alert_cooldown, last_alerts, monitor_errors, monitor_warnings,
          error_threshold, time_window, error_counts, processed_lines, unread,
          ev>>

None == "none"
NoTime == -1

Min(a, b) == IF a <= b THEN a ELSE b

(***************************************************************************)
(* Rule tables, in declaration order.                                      *)
(***************************************************************************)
ERROR_PATTERNS ==
    << [name |-> "stream_error",   head |-> "error", tails |-> {"stream", "playback", "transcode"}],
       [name |-> "database_error", head |-> "error", tails |-> {"database", "sqlite", "corruption"}],
       [name |-> "network_error",  head |-> "error", tails |-> {"network", "connection", "timeout"}],
       [name |-> "auth_error",     head |-> "error", tails |-> {"authentication", "unauthorized", "token"}],
       [name |-> "scanner_error",  head |-> "error", tails |-> {"scanner", "metadata", "library"}],
       [name |-> "disk_error",     head |-> "error", tails |-> {"disk", "i/o error", "read error"}] >>

WARNING_PATTERNS ==
    << [name |-> "transcoding_warning", head |-> "warn", tails |-> {"transcode", "codec"}],
       [name |-> "performance_warning", head |-> "warn", tails |-> {"slow", "performance", "timeout"}],
       [name |-> "permission_warning",  head |-> "warn", tails |-> {"permission", "access denied"}] >>

ErrorNames == {ERROR_PATTERNS[i].name : i \in DOMAIN ERROR_PATTERNS}
WarningNames == {WARNING_PATTERNS[i].name : i \in DOMAIN WARNING_PATTERNS}

(***************************************************************************)
(* Words of the log lines fed to the monitor.  Lower gives a word in lower *)
(* case (re.IGNORECASE); Keywords gives the rule keywords that occur in a  *)
(* lower-case word as substrings.                                          *)
(***************************************************************************)
Vocabulary ==
    << "ERROR", "error", "Error", "WARN", "warn", "WARNING", "INFO",
       "database", "DATABASE", "sqlite", "corruption", "stream", "Stream",
       "transcode", "timeout", "codec", "slow", "started" >>

Words == {Vocabulary[i] : i \in DOMAIN Vocabulary}

Lower(w) ==
    CASE w \in {"ERROR", "error", "Error"} -> "error"
      [] w \in {"WARN", "warn"}            -> "warn"
      [] w = "WARNING"                     -> "warning"
      [] w = "INFO"                        -> "info"
      [] w \in {"database", "DATABASE"}    -> "database"
      [] w \in {"stream", "Stream"}        -> "stream"
      [] OTHER                             -> w

Keywords(lw) ==
    CASE lw = "warning" -> {"warn"}
      [] lw \in {"info", "started"} -> {}
      [] OTHER -> {lw}

\* mutant: the rules are compiled without re.IGNORECASE
Search_case_sensitive(rule, line) ==
    \E i \in DOMAIN line : \E j \in DOMAIN line :
        /\ i < j
        /\ rule.head \in Keywords(line[i])
        /\ Keywords(line[j]) \cap rule.tails # {}

\* pattern.search(line) for one compiled rule
Search(rule, line) ==
    \E i \in DOMAIN line : \E j \in DOMAIN line :
        /\ i < j
        /\ rule.head \in Keywords(Lower(line[i]))
        /\ Keywords(Lower(line[j])) \cap rule.tails # {}

\* hash(line)
WordCode(w) == CHOOSE i \in DOMAIN Vocabulary : Vocabulary[i] = w

RECURSIVE HashFrom(_, _, _)
HashFrom(line, i, h) ==
    IF i > Len(line) THEN h
    ELSE HashFrom(line, i + 1, (h * 31 + WordCode(line[i])) % HashSpace)

LineHash(line) == HashFrom(line, 1, 0)

(***************************************************************************)
(* PlexLogMonitor.parse_log_line                                           *)
(***************************************************************************)
\* mutant: the loop does not return at the first match, the last match stands
LastMatch(rules, line, i) ==
    LET M == {k \in i..Len(rules) : Search(rules[k], line)}
    IN  IF M = {} THEN None
        ELSE rules[CHOOSE k \in M : \A m \in M : m <= k].name

\* mutant: a line that matches no rule of a table is given the table's last rule
RECURSIVE FirstMatch_fallback(_, _, _)
FirstMatch_fallback(rules, line, i) ==
    IF i >= Len(rules) THEN rules[Len(rules)].name
    ELSE IF Search(rules[i], line) THEN rules[i].name
    ELSE FirstMatch_fallback(rules, line, i + 1)

\* the for loop over one rule table: the first rule, from index i on, that matches
RECURSIVE FirstMatch(_, _, _)
FirstMatch(rules, line, i) ==
    IF i > Len(rules) THEN None
    ELSE IF Search(rules[i], line) THEN rules[i].name
    ELSE FirstMatch(rules, line, i + 1)

\* lines 360-376 over given rule tables: the classification of a line that
\* passed de-duplication
ClassifyWith(error_rules, warning_rules, line, errors_on, warnings_on) ==
    LET e == IF errors_on THEN FirstMatch(error_rules, line, 1) ELSE None
        w == IF warnings_on THEN FirstMatch(warning_rules, line, 1) ELSE None
    IN  IF e # None THEN [type |-> "error", pattern |-> e]
        ELSE IF w # None THEN [type |-> "warning", pattern |-> w]
        ELSE [type |-> None, pattern |-> None]

\* mutant: both rule tables are evaluated whatever the monitoring flags say
Classify_all_rules(line, errors_on, warnings_on) ==
    ClassifyWith(ERROR_PATTERNS, WARNING_PATTERNS, line, TRUE, TRUE)

Classify(line, errors_on, warnings_on) ==
    ClassifyWith(ERROR_PATTERNS, WARNING_PATTERNS, line, errors_on, warnings_on)

\* mutant: the hash of a line is looked up but never recorded
AddProcessed_forget(seen, h) == seen

\* mutant: at capacity one hash is evicted to make room for the new one
AddProcessed_evict_one(seen, h) ==
    IF h \in seen THEN seen
    ELSE IF Cardinality(seen \cup {h}) > MaxProcessedLines
         THEN (seen \ {CHOOSE x \in seen : \A y \in seen : x <= y}) \cup {h}
         ELSE seen \cup {h}

\* lines 341-350: processed_lines after the line's hash was looked up and added
AddProcessed(seen, h) ==
    IF h \in seen THEN seen
    ELSE IF Cardinality(seen \cup {h}) > MaxProcessedLines THEN {}
    ELSE seen \cup {h}

\* mutant: the hash of the line is not looked up in processed_lines
parse_log_line_no_dedup(line) ==
    Classify(line, monitor_errors, monitor_warnings)

\* the entry parse_log_line returns; type None stands for the return value None
parse_log_line(line) ==
    IF LineHash(line) \in processed_lines
    THEN [type |-> None, pattern |-> None]
    ELSE Classify(line, monitor_errors, monitor_warnings)

(***************************************************************************)
(* PlexLogMonitor.check_error_threshold                                    *)
(***************************************************************************)
\* datetime.timestamp(): seconds
Timestamp(t) == t * 60

\* mutant: old timestamps are not removed
WindowAfter_no_eviction(pattern, now) ==
    Append(error_counts[pattern], now)

\* mutant: the cutoff lies two windows back
WindowAfter_wider(pattern, now) ==
    LET cutoff == Timestamp(now) - (2 * time_window * 60)
        Recent(ts) == Timestamp(ts) > cutoff
    IN  Append(SelectSeq(error_counts[pattern], Recent), now)

\* lines 381-390: the pattern's list after eviction and the append of now
WindowAfter(pattern, now) ==
    LET cutoff == Timestamp(now) - (time_window * 60)
        Recent(ts) == Timestamp(ts) > cutoff
    IN  Append(SelectSeq(error_counts[pattern], Recent), now)

\* mutant: the occurrences of all patterns are summed toward the threshold
check_error_threshold_summed(pattern, now) ==
    Len(WindowAfter(pattern, now))
        + Cardinality(UNION {{<<q, i>> : i \in DOMAIN error_counts[q]} :
                                q \in ErrorNames \ {pattern}})
      >= error_threshold

\* mutant: only the occurrence that reaches the threshold reports a crossing
check_error_threshold_once(pattern, now) ==
    Len(WindowAfter(pattern, now)) = error_threshold

\* mutant: the count must exceed the threshold
check_error_threshold_above(pattern, now) ==
    Len(WindowAfter(pattern, now)) > error_threshold

\* mutant: the threshold is reached one occurrence early
check_error_threshold_early(pattern, now) ==
    Len(WindowAfter(pattern, now)) >= error_threshold - 1

check_error_threshold(pattern, now) ==
    Len(WindowAfter(pattern, now)) >= error_threshold

(***************************************************************************)
(* AlertManager                                                            *)
(***************************************************************************)
Channels == <<"email", "discord", "slack", "webhook">>

Enabled(ch) ==
    CASE ch = "email"   -> email_enabled
      [] ch = "discord" -> discord_enabled
      [] ch = "slack"   -> slack_enabled
      [] ch = "webhook" -> webhook_enabled

EnabledChannels == {Channels[i] : i \in {k \in DOMAIN Channels : Enabled(Channels[k])}}

\* pattern.replace('_', ' ').title()
TitleCase(pattern) ==
    CASE pattern = "stream_error"        -> "Stream Error"
      [] pattern = "database_error"      -> "Database Error"
      [] pattern = "network_error"       -> "Network Error"
      [] pattern = "auth_error"          -> "Auth Error"
      [] pattern = "scanner_error"       -> "Scanner Error"
      [] pattern = "disk_error"          -> "Disk Error"
      [] pattern = "transcoding_warning" -> "Transcoding Warning"
      [] pattern = "performance_warning" -> "Performance Warning"
      [] pattern = "permission_warning"  -> "Permission Warning"

ErrorTitle(pattern) == "Multiple " \o TitleCase(pattern) \o " Detected"
WarningTitle(pattern) == "Plex Warning: " \o TitleCase(pattern)

\* mutant: the key of an alert is its severity
AlertKey_severity_only(severity, title) == severity

AlertKey(severity, title) == severity \o ":" \o title

\* mutant: the cooldown must be exceeded, not just reached
should_send_alert_strict(alert_key, now) ==
    IF alert_key \notin DOMAIN last_alerts THEN TRUE
    ELSE Timestamp(now) - Timestamp(last_alerts[alert_key]) > alert_cooldown * 60

\* mutant: the elapsed time is not compared with the cooldown
should_send_alert_always(alert_key, now) == TRUE

should_send_alert(alert_key, now) ==
    IF alert_key \notin DOMAIN last_alerts THEN TRUE
    ELSE Timestamp(now) - Timestamp(last_alerts[alert_key]) >= alert_cooldown * 60

\* mutant: recording a key drops the records of the other keys
MarkSent_pruned(alert_key, now) ==
    [k \in {alert_key} |-> now]

\* last_alerts[alert_key] = datetime.now()
MarkSent(alert_key, now) ==
    [k \in DOMAIN last_alerts \cup {alert_key} |->
        IF k = alert_key THEN now ELSE last_alerts[k]]

\* mutant: a failure is not caught in _send_* and ends the dispatch
RECURSIVE Deliver_until_failure(_, _)
Deliver_until_failure(i, outcome) ==
    IF i > Len(Channels) THEN <<>>
    ELSE IF Enabled(Channels[i])
         THEN <<[channel |-> Channels[i], ok |-> outcome[Channels[i]]]>>
              \o (IF outcome[Channels[i]]
                  THEN Deliver_until_failure(i + 1, outcome) ELSE <<>>)
         ELSE Deliver_until_failure(i + 1, outcome)

\* mutant: a failed delivery is tried a second time
RECURSIVE Deliver_with_retry(_, _)
Deliver_with_retry(i, outcome) ==
    IF i > Len(Channels) THEN <<>>
    ELSE IF Enabled(Channels[i])
         THEN <<[channel |-> Channels[i], ok |-> outcome[Channels[i]]]>>
              \o (IF outcome[Channels[i]] THEN <<>>
                  ELSE <<[channel |-> Channels[i], ok |-> FALSE]>>)
              \o Deliver_with_retry(i + 1, outcome)
         ELSE Deliver_with_retry(i + 1, outcome)

\* lines 157-167: the channels attempted, in order, each with its outcome; a
\* failure inside _send_* is caught there and the next channel is tried
RECURSIVE Deliver(_, _)
Deliver(i, outcome) ==
    IF i > Len(Channels) THEN <<>>
    ELSE IF Enabled(Channels[i])
         THEN <<[channel |-> Channels[i], ok |-> outcome[Channels[i]]]>>
              \o Deliver(i + 1, outcome)
         ELSE Deliver(i + 1, outcome)

\* the outcomes the enabled channels may have when an alert is dispatched
Outcomes(dispatch) ==
    IF dispatch THEN [EnabledChannels -> BOOLEAN] ELSE {[c \in {} |-> TRUE]}

NoAlert ==
    [offered |-> FALSE, key |-> None, title |-> None, message |-> None,
     severity |-> None, at |-> NoTime, prev |-> NoTime, sent |-> FALSE,
     attempts |-> <<>>]

\* mutant: the alert is recorded only when a delivery succeeded
send_alert_mark_on_success(title, message, severity, now, outcome) ==
    LET key == AlertKey(severity, title)
        pass == should_send_alert(key, now)
        attempts == IF pass THEN Deliver(1, outcome) ELSE <<>>
        delivered == \E i \in DOMAIN attempts : attempts[i].ok
    IN  [alert |-> [offered |-> TRUE, key |-> key, title |-> title,
                    message |-> message, severity |-> severity,
                    at |-> now,
                    prev |-> IF key \in DOMAIN last_alerts
                             THEN last_alerts[key] ELSE NoTime,
                    sent |-> pass,
                    attempts |-> attempts],
         last_alerts |-> IF pass /\ delivered THEN MarkSent(key, now) ELSE last_alerts]

\* mutant: the key is recorded before the gate is consulted, a suppressed alert
\* renews the record
send_alert_mark_always(title, message, severity, now, outcome) ==
    LET key == AlertKey(severity, title)
        pass == should_send_alert(key, now)
    IN  [alert |-> [offered |-> TRUE, key |-> key, title |-> title,
                    message |-> message, severity |-> severity,
                    at |-> now,
                    prev |-> IF key \in DOMAIN last_alerts
                             THEN last_alerts[key] ELSE NoTime,
                    sent |-> pass,
                    attempts |-> IF pass THEN Deliver(1, outcome) ELSE <<>>],
         last_alerts |-> MarkSent(key, now)]

\* send_alert: the alert record of ev (prev is the last_alerts entry that
\* should_send_alert read, NoTime when there was none) and the effect on
\* last_alerts
send_alert(title, message, severity, now, outcome) ==
    LET key == AlertKey(severity, title)
        pass == should_send_alert(key, now)
    IN  [alert |-> [offered |-> TRUE, key |-> key, title |-> title,
                    message |-> message, severity |-> severity,
                    at |-> now,
                    prev |-> IF key \in DOMAIN last_alerts
                             THEN last_alerts[key] ELSE NoTime,
                    sent |-> pass,
                    attempts |-> IF pass THEN Deliver(1, outcome) ELSE <<>>],
         last_alerts |-> IF pass THEN MarkSent(key, now) ELSE last_alerts]

(***************************************************************************)
(* PlexLogMonitor.process_log_entry: titles and messages                   *)
(***************************************************************************)
\* line.strip(): the words joined by blanks
RECURSIVE Text(_)
Text(line) ==
    IF Len(line) = 0 THEN ""
    ELSE IF Len(line) = 1 THEN line[1]
    ELSE line[1] \o " " \o Text(Tail(line))

\* mutant: the message of an error alert does not carry the count
ErrorMessage_fixed(count) == "Detected errors"

ErrorMessage(count) ==
    "Detected " \o ToString(count) \o " errors in the last "
        \o ToString(time_window) \o " minutes"

(***************************************************************************)
(* The state after construction: AlertManager.__init__ and                 *)
(* PlexLogMonitor.__init__ read the configuration from the environment.    *)
(***************************************************************************)
ChannelFlags == [1..4 -> BOOLEAN]

NoEvent ==
    [op |-> "none", line |-> <<>>, dropped |-> FALSE, at |-> NoTime,
     type |-> None, pattern |-> None, evicted |-> 0, crossed |-> FALSE,
     skipped |-> 0, found |-> None, alert |-> NoAlert]

\* what the log file may hold when the monitor starts
Backlogs == { <<>>, << <<"ERROR", "database">>, <<"WARN", "slow">> >> }

Configure(flags, thresholds, windows, cooldowns, channels) ==
    /\ pc = "init"
    /\ clock = 0
    /\ \E f \in flags : monitor_errors = f[1] /\ monitor_warnings = f[2]
    /\ error_threshold \in thresholds
    /\ time_window \in windows
    /\ alert_cooldown \in cooldowns
    /\ \E c \in channels :
        /\ email_enabled = c[1]
        /\ discord_enabled = c[2]
        /\ slack_enabled = c[3]
        /\ webhook_enabled = c[4]
    /\ last_alerts = [k \in {} |-> 0]
    /\ error_counts = [p \in ErrorNames |-> <<>>]
    /\ processed_lines = {}
    /\ unread \in Backlogs
    /\ ev = NoEvent

(***************************************************************************)
(* Steps                                                                   *)
(***************************************************************************)
\* the clock when a handler that started at c is back in its loop: handling
\* a line and delivering an alert take time
After(c, horizon) == c..Min(c + MaxDrift, horizon)

\* a call of send_alert from a step whose event record is base
Send(title, message, severity, base) ==
    \E outcome \in Outcomes(should_send_alert(AlertKey(severity, title), clock)) :
        LET r == send_alert(title, message, severity, clock, outcome)
        IN  /\ last_alerts' = r.last_alerts
            /\ ev' = [base EXCEPT !.alert = r.alert]

\* mutant: run() goes to the discovery of the log files without a notification
RunStart_silent(horizon) ==
    /\ pc = "init"
    /\ ev' = [NoEvent EXCEPT !.op = "start"]
    /\ clock' \in After(clock, horizon)
    /\ pc' = "discover"
    /\ UNCHANGED <<config, last_alerts, error_counts, processed_lines, unread>>

\* run(), lines 455-466: the startup notification
RunStart(horizon) ==
    /\ pc = "init"
    /\ Send("Sentarr Started", "Log monitoring has been initiated", "info",
            [NoEvent EXCEPT !.op = "start"])
    /\ clock' \in After(clock, horizon)
    /\ pc' = "discover"
    /\ UNCHANGED <<config, error_counts, processed_lines, unread>>

\* mutant: the file is read from its first line, f.seek(0, 2) is left out
GetLogFiles_from_start ==
    /\ pc = "discover"
    /\ \E found \in {"files", "nothing", "raised"} :
           /\ pc' = CASE found = "files"   -> "tailing"
                      [] found = "nothing" -> "done"
                      [] found = "raised"  -> "crashing"
           /\ ev' = [NoEvent EXCEPT !.op = "discover", !.found = found]
    /\ unread' = unread
    /\ UNCHANGED <<clock, config, last_alerts, error_counts, processed_lines>>

\* mutant: an empty list of log files is treated as an error of the monitor
GetLogFiles_no_file_crashes ==
    /\ pc = "discover"
    /\ \E found \in {"files", "nothing", "raised"} :
           /\ pc' = IF found = "files" THEN "tailing" ELSE "crashing"
           /\ unread' = IF found = "files" THEN <<>> ELSE unread
           /\ ev' = [NoEvent EXCEPT !.op = "discover", !.found = found,
                                    !.skipped = IF found = "files"
                                                THEN Len(unread) ELSE 0]
    /\ UNCHANGED <<clock, config, last_alerts, error_counts, processed_lines>>

\* run(), lines 468-479: get_log_files returns files, returns nothing (run
\* returns), or raises (main's except clause); tail_file, lines 436-438,
\* opens the first file and moves the read position to its end
GetLogFiles ==
    /\ pc = "discover"
    /\ \E found \in {"files", "nothing", "raised"} :
           /\ pc' = CASE found = "files"   -> "tailing"
                      [] found = "nothing" -> "done"
                      [] found = "raised"  -> "crashing"
           /\ unread' = IF found = "files" THEN <<>> ELSE unread
           /\ ev' = [NoEvent EXCEPT !.op = "discover", !.found = found,
                                    !.skipped = IF found = "files"
                                                THEN Len(unread) ELSE 0]
    /\ UNCHANGED <<clock, config, last_alerts, error_counts, processed_lines>>

\* main(), lines 495-501: the crash notification
CrashAlert(horizon) ==
    /\ pc = "crashing"
    /\ Send("Sentarr Crashed", "Monitor encountered an error", "critical",
            [NoEvent EXCEPT !.op = "crash"])
    /\ clock' \in After(clock, horizon)
    /\ pc' = "done"
    /\ UNCHANGED <<config, error_counts, processed_lines, unread>>

\* process_log_entry for an entry of type error
ProcessError(line, entry) ==
    \E window \in {WindowAfter(entry.pattern, clock)} :
    \E crossed \in {check_error_threshold(entry.pattern, clock)} :
        LET base == [op |-> "line", line |-> line, dropped |-> FALSE,
                     at |-> clock, type |-> entry.type, pattern |-> entry.pattern,
                     evicted |-> Len(error_counts[entry.pattern]) + 1 - Len(window),
                     crossed |-> crossed, alert |-> NoAlert]
        IN  /\ Len(window) <= error_threshold + MaxExcess
            /\ error_counts' = [error_counts EXCEPT ![entry.pattern] = window]
            /\ IF crossed
               THEN Send(ErrorTitle(entry.pattern), ErrorMessage(Len(window)),
                         "error", base)
               ELSE /\ last_alerts' = last_alerts
                    /\ ev' = base

\* mutant: a warning goes through the threshold check of its own, fresh list
ProcessWarning_thresholded(line, entry) ==
    /\ error_counts' = error_counts
    /\ IF 1 >= error_threshold
       THEN Send(WarningTitle(entry.pattern), Text(line), "warning",
                 [op |-> "line", line |-> line, dropped |-> FALSE, at |-> clock,
                  type |-> entry.type, pattern |-> entry.pattern,
                  evicted |-> 0, crossed |-> FALSE, alert |-> NoAlert])
       ELSE /\ last_alerts' = last_alerts
            /\ ev' = [op |-> "line", line |-> line, dropped |-> FALSE,
                      at |-> clock, type |-> entry.type,
                      pattern |-> entry.pattern, evicted |-> 0,
                      crossed |-> FALSE, alert |-> NoAlert]

\* process_log_entry for an entry of type warning
ProcessWarning(line, entry) ==
    /\ error_counts' = error_counts
    /\ Send(WarningTitle(entry.pattern), Text(line), "warning",
            [op |-> "line", line |-> line, dropped |-> FALSE, at |-> clock,
             type |-> entry.type, pattern |-> entry.pattern,
             evicted |-> 0, crossed |-> FALSE, alert |-> NoAlert])

\* tail_file, lines 441-446: one line is read, parsed and processed; readline
\* returns the line at the read position, a line appended to the file when
\* the position is at the end of what the file held at the start
ReadLine(line, horizon) ==
    /\ pc = "tailing"
    /\ unread # <<>> => line = Head(unread)
    /\ unread' = IF unread = <<>> THEN <<>> ELSE Tail(unread)
    /\ \E entry \in {parse_log_line(line)} :
           /\ processed_lines' = AddProcessed(processed_lines, LineHash(line))
           /\ CASE entry.type = "error"   -> ProcessError(line, entry)
                [] entry.type = "warning" -> ProcessWarning(line, entry)
                [] OTHER ->
                       /\ ev' = [NoEvent EXCEPT
                                    !.op = "line", !.line = line,
                                    !.dropped = (LineHash(line) \in processed_lines),
                                    !.at = IF LineHash(line) \in processed_lines
                                           THEN NoTime ELSE clock]
                       /\ UNCHANGED <<last_alerts, error_counts>>
    /\ clock' \in After(clock, horizon)
    /\ UNCHANGED <<pc, config>>

\* tail_file, lines 447-448: no line is available, the loop sleeps
Sleep(horizon) ==
    /\ pc = "tailing"
    /\ unread = <<>>
    /\ clock < horizon
    /\ clock' = clock + 1
    /\ ev' = [NoEvent EXCEPT !.op = "sleep"]
    /\ UNCHANGED <<pc, config, last_alerts, error_counts, processed_lines, unread>>

\* tail_file, lines 450-451: open or readline raises; the exception is logged
\* and tail_file returns
TailFails ==
    /\ pc = "tailing"
    /\ pc' = "done"
    /\ ev' = [NoEvent EXCEPT !.op = "tail_error"]
    /\ UNCHANGED <<clock, config, last_alerts, error_counts, processed_lines, unread>>

(***************************************************************************)
(* Specifications: the configuration read at construction and the lines    *)
(* the log receives.                                                       *)
(***************************************************************************)
\* small threshold, window (minutes) and cooldown (minutes); discord enabled
LogLines ==
    { <<"ERROR", "database">>, <<"error", "sqlite">>, <<"Error", "DATABASE">>,
      <<"WARN", "slow">>, <<"INFO", "started">> }

Init ==
    Configure({<<TRUE, TRUE>>}, {2}, {2}, {3}, {<<FALSE, TRUE, FALSE, FALSE>>})

Next ==
    \/ RunStart(MaxClock)
    \/ GetLogFiles
    \/ CrashAlert(MaxClock)
    \/ \E line \in LogLines : ReadLine(line, MaxClock)
    \/ Sleep(MaxClock)
    \/ TailFails

Spec == Init /\ [][Next]_vars

\* the default threshold (5) and window (5 minutes), a burst of database
\* errors read from a file that stays readable
BurstLines ==
    { <<"ERROR", "database">>, <<"error", "sqlite">>, <<"Error", "DATABASE">>,
      <<"ERROR", "corruption">>, <<"ERROR", "sqlite">> }

InitBurst ==
    Configure({<<TRUE, TRUE>>}, {5}, {5}, {4}, {<<FALSE, TRUE, FALSE, FALSE>>})

NextBurst ==
    \/ RunStart(BurstClock)
    \/ GetLogFiles
    \/ CrashAlert(BurstClock)
    \/ \E line \in BurstLines : ReadLine(line, BurstClock)
    \/ Sleep(BurstClock)

SpecBurst == InitBurst /\ [][NextBurst]_vars

\* every setting of the four channel flags
DispatchLines ==
    { <<"ERROR", "database">>, <<"WARN", "slow">> }

InitDispatch ==
    Configure({<<TRUE, TRUE>>}, {1}, {1}, {2}, ChannelFlags)

NextDispatch ==
    \/ RunStart(MaxClock)
    \/ GetLogFiles
    \/ CrashAlert(MaxClock)
    \/ \E line \in DispatchLines : ReadLine(line, MaxClock)
    \/ Sleep(MaxClock)
    \/ TailFails

SpecDispatch == InitDispatch /\ [][NextDispatch]_vars

\* every setting of the two monitoring flags, lines that match several
\* rules, read from a file that stays readable
ClassifyLines ==
    { <<"ERROR", "stream", "sqlite", "timeout">>, <<"WARN", "ERROR", "transcode">>,
      <<"warn", "codec", "slow">>, <<"ERROR", "database">>, <<"database", "ERROR">> }

InitClassify ==
    Configure(BOOLEAN \X BOOLEAN, {1}, {1}, {2}, {<<FALSE, FALSE, TRUE, FALSE>>})

NextClassify ==
    \/ RunStart(ClassifyClock)
    \/ GetLogFiles
    \/ CrashAlert(ClassifyClock)
    \/ \E line \in ClassifyLines : ReadLine(line, ClassifyClock)
    \/ Sleep(ClassifyClock)

SpecClassify == InitClassify /\ [][NextClassify]_vars

\* two error patterns and two warning patterns, a threshold above one
PatternsClock == 1

PatternLines ==
    { <<"ERROR", "stream">>, <<"ERROR", "database">>, <<"error", "sqlite">>,
      <<"WARN", "slow">>, <<"warn", "codec">> }

InitPatterns ==
    Configure({<<TRUE, TRUE>>}, {3}, {2}, {2}, {<<FALSE, TRUE, FALSE, FALSE>>})

NextPatterns ==
    \/ RunStart(PatternsClock)
    \/ GetLogFiles
    \/ CrashAlert(PatternsClock)
    \/ \E line \in PatternLines : ReadLine(line, PatternsClock)
    \/ Sleep(PatternsClock)

SpecPatterns == InitPatterns /\ [][NextPatterns]_vars

(***************************************************************************)
(* Properties                                                              *)
(***************************************************************************)
DatabaseKey == "error:Multiple Database Error Detected"

\* the timestamps of a pattern that are less than time_window minutes old at now
Counted(pattern, now) ==
    Cardinality({i \in DOMAIN error_counts[pattern] :
                    now - error_counts[pattern][i] < time_window})

\* the line matches the database_error rule and no rule declared before it
MatchesDatabaseError(line) ==
    Search(ERROR_PATTERNS[2], line) /\ ~Search(ERROR_PATTERNS[1], line)

\* the channels of a sequence of delivery attempts
AttemptedChannels(attempts) == [i \in DOMAIN attempts |-> attempts[i].channel]

\* the gate as the cooldown contract states it, in minutes
GateOpen(key, now) ==
    key \notin DOMAIN last_alerts \/ now - last_alerts[key] >= alert_cooldown

(* C1, as stated: with threshold 5 and window 5 minutes, the fifth line     *)
(* matching database_error fed within the window is dispatched: when four   *)
(* occurrences are counted in the window and no alert of the key was sent,  *)
(* reading one more matching line sends the alert.  The code drops a line   *)
(* whose hash is in processed_lines before it is counted.                   *)
C1_FifthMatchingLineDispatched ==
    [][ ( /\ pc = "tailing" /\ ev'.op = "line"
          /\ MatchesDatabaseError(ev'.line) /\ monitor_errors
          /\ error_threshold = 5 /\ time_window = 5
          /\ Counted("database_error", clock) = 4
          /\ DatabaseKey \notin DOMAIN last_alerts )
        => (ev'.alert.sent /\ ev'.alert.key = DatabaseKey) ]_vars

(* C1, amended: with threshold 5 and window 5 minutes, of the lines that    *)
(* match database_error and pass de-duplication, the first four in a window *)
(* dispatch nothing, the fifth is dispatched exactly once (every enabled    *)
(* channel attempted once) when no alert of the key was recorded, and a     *)
(* further one within the window and within the cooldown dispatches nothing.*)
C1_BurstDispatchedOnce ==
    [][ ( /\ pc = "tailing" /\ ev'.op = "line"
          /\ MatchesDatabaseError(ev'.line) /\ monitor_errors
          /\ LineHash(ev'.line) \notin processed_lines
          /\ error_threshold = 5 /\ time_window = 5 )
        => LET n == Counted("database_error", clock)
               quiet == /\ ev'.alert.sent = FALSE
                        /\ ev'.alert.attempts = <<>>
                        /\ last_alerts' = last_alerts
           IN  /\ (n < 4) => (quiet /\ ev'.alert.offered = FALSE)
               /\ (n >= 4 /\ DatabaseKey \notin DOMAIN last_alerts)
                    => /\ ev'.alert.sent
                       /\ ev'.alert.key = DatabaseKey
                       /\ AttemptedChannels(ev'.alert.attempts)
                             = SelectSeq(Channels, Enabled)
                       /\ DatabaseKey \in DOMAIN last_alerts'
               /\ ( /\ n >= 4
                    /\ DatabaseKey \in DOMAIN last_alerts
                    /\ clock - last_alerts[DatabaseKey] < alert_cooldown )
                    => quiet ]_vars

\* C1, witness: a sixth database_error line in the window, within the cooldown
C1_SixthLineSuppressed ==
    /\ ev.op = "line" /\ ev.pattern = "database_error"
    /\ error_threshold = 5 /\ time_window = 5
    /\ Len(error_counts["database_error"]) = 6
    /\ ev.crossed /\ ev.alert.offered /\ ~ev.alert.sent
    /\ DatabaseKey \in DOMAIN last_alerts

(* C2: after an error occurrence is recorded, no timestamp older than       *)
(* now - window is held in the pattern's list, and a crossing is reported   *)
(* only when at least error_threshold timestamps no older than that are     *)
(* held: occurrences evicted earlier never count.                           *)
C2_EvictedNeverCount ==
    (ev.op = "line" /\ ev.type = "error")
        => LET w == error_counts[ev.pattern]
           IN  /\ \A i \in DOMAIN w : w[i] >= ev.at - time_window
               /\ ev.crossed =>
                    Cardinality({i \in DOMAIN w : w[i] >= ev.at - time_window})
                        >= error_threshold

\* C2, witness: four occurrences were evicted, the fifth one, read more than
\* a window after the start, does not cross the threshold of 5
C2_FourEvictedNoCrossing ==
    /\ ev.op = "line" /\ ev.type = "error"
    /\ error_threshold = 5 /\ ev.at > time_window
    /\ ev.evicted = 4 /\ ~ev.crossed

(* C3: once the alert error:Multiple Database Error Detected was sent, a    *)
(* crossing of database_error less than alert_cooldown minutes later is     *)
(* suppressed (no channel attempted, the record unchanged) and a crossing   *)
(* alert_cooldown minutes later or more is dispatched again.                *)
C3_CooldownReopens ==
    [][ ( /\ pc = "tailing" /\ ev'.op = "line"
          /\ ev'.pattern = "database_error" /\ ev'.crossed
          /\ DatabaseKey \in DOMAIN last_alerts )
        => /\ ev'.alert.offered /\ ev'.alert.key = DatabaseKey
           /\ (clock - last_alerts[DatabaseKey] < alert_cooldown)
                => /\ ev'.alert.sent = FALSE
                   /\ ev'.alert.attempts = <<>>
                   /\ last_alerts' = last_alerts
           /\ (clock - last_alerts[DatabaseKey] >= alert_cooldown)
                => /\ ev'.alert.sent
                   /\ AttemptedChannels(ev'.alert.attempts)
                         = SelectSeq(Channels, Enabled)
                   /\ last_alerts'[DatabaseKey] = clock ]_vars

\* C3, witness: the alert is sent a second time, after the cooldown
C3_SentAgainAfterCooldown ==
    /\ ev.op = "line" /\ ev.crossed
    /\ ev.alert.key = DatabaseKey /\ ev.alert.sent
    /\ ev.alert.prev # NoTime
    /\ ev.alert.attempts # <<>>

(* C4: for every dispatched alert the channels attempted are exactly the    *)
(* enabled channels, in order, whatever the outcome of each delivery, and   *)
(* the caller goes on: the tail loop stays in the loop, run() goes on to    *)
(* the discovery of the log files.                                          *)
C4_FailureIsolated ==
    ev.alert.sent
        => /\ AttemptedChannels(ev.alert.attempts) = SelectSeq(Channels, Enabled)
           /\ ev.op = "line" => pc = "tailing"
           /\ ev.op = "start" => pc = "discover"

\* C4, witness: two enabled channels, the first delivery fails, the second
\* is attempted and succeeds
C4_FailedThenDelivered ==
    /\ ev.alert.sent
    /\ Len(ev.alert.attempts) = 2
    /\ ~ev.alert.attempts[1].ok
    /\ ev.alert.attempts[2].ok

(* C5: an alert offered with key K at time now passes the gate if and only  *)
(* if K was never recorded or now - lastSent(K) >= alert_cooldown; an alert *)
(* that does not pass attempts no channel and leaves the record unchanged,  *)
(* so two alerts of one key within the cooldown give a single delivery.     *)
C5_GatePermitsIff ==
    [][ ev'.alert.offered
        => /\ ev'.alert.sent <=> GateOpen(ev'.alert.key, clock)
           /\ ~GateOpen(ev'.alert.key, clock)
                => /\ ev'.alert.attempts = <<>>
                   /\ last_alerts' = last_alerts ]_vars

\* C5, witness: a second alert of a key, one minute before the cooldown ends
C5_SecondAlertCollapsed ==
    /\ ev.alert.offered /\ ~ev.alert.sent
    /\ ev.alert.prev # NoTime
    /\ ev.alert.at - ev.alert.prev = alert_cooldown - 1

(* C6: an alert that passes the gate is recorded in last_alerts with the    *)
(* time of the dispatch, whether its deliveries succeed or fail.            *)
C6_RecordedWhateverTheOutcome ==
    [][ ev'.alert.sent
        => /\ ev'.alert.key \in DOMAIN last_alerts'
           /\ last_alerts'[ev'.alert.key] = clock ]_vars

\* C6, witness: every enabled channel failed and the alert is recorded
C6_AllFailedStillRecorded ==
    /\ ev.alert.sent
    /\ Len(ev.alert.attempts) >= 2
    /\ \A i \in DOMAIN ev.alert.attempts : ~ev.alert.attempts[i].ok
    /\ last_alerts[ev.alert.key] = ev.alert.at

\* the rule table with the rules at positions i and j exchanged
Swap(rules, i, j) ==
    [k \in DOMAIN rules |-> IF k = i THEN rules[j]
                            ELSE IF k = j THEN rules[i] ELSE rules[k]]

\* the positions of the rules of a table that match the line
MatchingRules(rules, line) == {k \in DOMAIN rules : Search(rules[k], line)}

MinOf(S) == CHOOSE k \in S : \A m \in S : k <= m

\* the classification of the line changes when rules i and j of the error
\* table, or of the warning table, are declared in the other order
ErrorSwapChanges(line, i, j) ==
    ClassifyWith(Swap(ERROR_PATTERNS, i, j), WARNING_PATTERNS, line,
                 monitor_errors, monitor_warnings)
        # Classify(line, monitor_errors, monitor_warnings)

WarningSwapChanges(line, i, j) ==
    ClassifyWith(ERROR_PATTERNS, Swap(WARNING_PATTERNS, i, j), line,
                 monitor_errors, monitor_warnings)
        # Classify(line, monitor_errors, monitor_warnings)

\* the last step classified a line that passed de-duplication
Classified == ev.op = "line" /\ ~ev.dropped

(* C7, as stated: a line is attributed to the earliest-declared matching    *)
(* rule, and swapping the declaration order of any two rules that both      *)
(* match the line changes the line's classification.  A line that matches   *)
(* three rules keeps its classification when the second and the third are   *)
(* swapped.                                                                 *)
C7_AnySwapChanges ==
    (Classified /\ monitor_errors /\ monitor_warnings) =>
        LET E == MatchingRules(ERROR_PATTERNS, ev.line)
            W == MatchingRules(WARNING_PATTERNS, ev.line)
        IN  /\ E # {} => ev.pattern = ERROR_PATTERNS[MinOf(E)].name
            /\ \A i \in E : \A j \in E : i < j => ErrorSwapChanges(ev.line, i, j)
            /\ \A i \in W : \A j \in W : i < j => WarningSwapChanges(ev.line, i, j)

(* C7, amended: a line is classified by the first matching rule of the      *)
(* enabled error table in declaration order, else by the first matching     *)
(* rule of the enabled warning table, so an error rule wins over a warning  *)
(* rule; swapping two matching rules of one table changes the               *)
(* classification exactly when one of the two is the rule that classified   *)
(* the line.                                                                *)
C7_FirstMatchWins ==
    Classified =>
        LET E == MatchingRules(ERROR_PATTERNS, ev.line)
            W == MatchingRules(WARNING_PATTERNS, ev.line)
            byError == monitor_errors /\ E # {}
            byWarning == ~byError /\ monitor_warnings /\ W # {}
        IN  /\ byError =>
                /\ ev.type = "error"
                /\ ev.pattern = ERROR_PATTERNS[MinOf(E)].name
            /\ byWarning =>
                /\ ev.type = "warning"
                /\ ev.pattern = WARNING_PATTERNS[MinOf(W)].name
            /\ (~byError /\ ~byWarning) => ev.type = None
            /\ \A i \in E : \A j \in E : i < j =>
                   (ErrorSwapChanges(ev.line, i, j) <=> (byError /\ i = MinOf(E)))
            /\ \A i \in W : \A j \in W : i < j =>
                   (WarningSwapChanges(ev.line, i, j) <=> (byWarning /\ i = MinOf(W)))

\* C7 witness: a line matching three error rules was classified by the first,
\* and a swap of the other two leaves the classification as it is
C7_ThreeRulesMatch ==
    /\ Classified
    /\ monitor_errors
    /\ Cardinality(MatchingRules(ERROR_PATTERNS, ev.line)) >= 3
    /\ ev.pattern = "stream_error"
    /\ ~ErrorSwapChanges(ev.line, 2, 3)
    /\ ErrorSwapChanges(ev.line, 1, 2)

(* C8: with error monitoring disabled no line is classified with severity   *)
(* error, and a line matching an error rule and a warning rule is then      *)
(* classified as the warning; with warning monitoring disabled no line is   *)
(* classified with severity warning.                                        *)
C8_DisabledRulesNotEvaluated ==
    /\ ~monitor_errors => ev.type # "error"
    /\ ~monitor_warnings => ev.type # "warning"
    /\ (Classified /\ ~monitor_errors /\ monitor_warnings
          /\ MatchingRules(WARNING_PATTERNS, ev.line) # {}) =>
           /\ ev.type = "warning"
           /\ ev.alert.offered
           /\ ev.alert.severity = "warning"
    /\ (Classified /\ ~monitor_errors /\ ~monitor_warnings) =>
           /\ ev.type = None
           /\ ~ev.alert.offered

\* C8 witness: error monitoring is off and a line that matches an error rule
\* and a warning rule was classified as the warning
C8_ErrorLineClassifiedAsWarning ==
    /\ Classified
    /\ ~monitor_errors
    /\ MatchingRules(ERROR_PATTERNS, ev.line) # {}
    /\ MatchingRules(WARNING_PATTERNS, ev.line) # {}
    /\ ev.type = "warning"

(* C9: for an entry of severity error the alert is offered to the cooldown  *)
(* gate only if the number of occurrences of the pattern inside the window, *)
(* the one just recorded included, is at least the threshold; an occurrence *)
(* that leaves the count below the threshold reaches neither the gate nor a *)
(* channel, and records nothing as sent.                                    *)
C9_OfferedOnlyAtThreshold ==
    [][(ev'.op = "line" /\ ev'.type = "error") =>
          LET list == error_counts'[ev'.pattern]
              count == Cardinality({i \in DOMAIN list :
                                       ev'.at - list[i] < time_window})
          IN  /\ list[Len(list)] = ev'.at
              /\ ev'.alert.offered => count >= error_threshold
              /\ count < error_threshold =>
                     /\ ~ev'.alert.offered
                     /\ ev'.alert.attempts = <<>>
                     /\ last_alerts' = last_alerts]_vars

\* C9 witness: an error occurrence was recorded one short of the threshold
\* with the gate open for its key, and nothing was offered
C9_BelowThresholdNotOffered ==
    /\ ev.op = "line"
    /\ ev.type = "error"
    /\ Len(error_counts[ev.pattern]) = error_threshold - 1
    /\ AlertKey("error", ErrorTitle(ev.pattern)) \notin DOMAIN last_alerts
    /\ ~ev.alert.offered

(* C10: every classified entry of severity warning is offered to the        *)
(* cooldown gate, whatever the threshold and the windows hold, and leaves   *)
(* the windows as they are; the alert is delivered exactly when the gate is *)
(* open for its key.                                                        *)
C10_WarningAlwaysOffered ==
    [][(ev'.op = "line" /\ ev'.type = "warning") =>
          /\ ev'.alert.offered
          /\ ev'.alert.severity = "warning"
          /\ ev'.alert.key = AlertKey("warning", WarningTitle(ev'.pattern))
          /\ error_counts' = error_counts
          /\ ev'.alert.sent <=> GateOpen(ev'.alert.key, clock)]_vars

\* C10 witness: a single warning line was delivered while every window is
\* below the threshold
C10_WarningSentBelowThreshold ==
    /\ ev.op = "line"
    /\ ev.type = "warning"
    /\ ev.alert.sent
    /\ ev.alert.attempts # <<>>
    /\ \A p \in ErrorNames : Len(error_counts[p]) < error_threshold

\* how many of the delivery attempts went to the channel
AttemptsOn(attempts, ch) ==
    Cardinality({i \in DOMAIN attempts : attempts[i].channel = ch})

(* C11: for every dispatched alert each channel whose flag is set is        *)
(* attempted exactly once, also when the attempt failed, and a channel      *)
(* whose flag is not set is not attempted; an alert that was not            *)
(* dispatched attempts no channel.                                          *)
C11_OneAttemptPerEnabledChannel ==
    /\ ev.alert.sent =>
          \A k \in DOMAIN Channels :
              AttemptsOn(ev.alert.attempts, Channels[k])
                  = IF Enabled(Channels[k]) THEN 1 ELSE 0
    /\ ~ev.alert.sent => ev.alert.attempts = <<>>

\* C11 witness: a dispatch with an enabled channel that failed, an enabled
\* channel that succeeded and a channel that is switched off
C11_FailedOnceDisabledNever ==
    /\ ev.alert.sent
    /\ \E i \in DOMAIN ev.alert.attempts : ~ev.alert.attempts[i].ok
    /\ \E i \in DOMAIN ev.alert.attempts : ev.alert.attempts[i].ok
    /\ \E k \in DOMAIN Channels :
          ~Enabled(Channels[k]) /\ AttemptsOn(ev.alert.attempts, Channels[k]) = 0

(* C12, as stated: when the monitoring loop ends on an error, a failure of  *)
(* the tailer included, the last thing the process did before it exited is  *)
(* the offer of the "Sentarr Crashed" alert of severity critical.  The only *)
(* exit without an error is run() finding no log file.  tail_file catches   *)
(* the failure itself and returns, so run() returns and main sends nothing. *)
C12_CrashAlertBeforeExit ==
    (pc = "done" /\ ev.op # "discover") =>
        /\ ev.op = "crash"
        /\ ev.alert.offered
        /\ ev.alert.title = "Sentarr Crashed"
        /\ ev.alert.severity = "critical"

(* C13, as stated: an I/O error on the tailed file ends the tail loop and   *)
(* is surfaced to the caller: the step in which the tailer fails hands the  *)
(* failure to main's except clause.  tail_file absorbs the exception and    *)
(* the caller sees a normal return.                                         *)
C13_TailFailureSurfaced ==
    [][ev'.op = "tail_error" => pc' = "crashing"]_vars

StartedKey == "info:Sentarr Started"

(* C14: the "Sentarr Started" alert of severity info is offered by the      *)
(* step that leaves the start of run(), before the tail loop reads a line:  *)
(* whenever the tail loop is entered or a line was read, the startup alert  *)
(* is on record, no later than any recorded occurrence, and before that     *)
(* step nothing was processed.                                              *)
C14_StartupAlertFirst ==
    /\ pc = "init" =>
          /\ ev = NoEvent
          /\ processed_lines = {}
          /\ \A p \in ErrorNames : error_counts[p] = <<>>
    /\ ev.op = "start" =>
          /\ ev.alert.offered
          /\ ev.alert.title = "Sentarr Started"
          /\ ev.alert.severity = "info"
          /\ processed_lines = {}
    /\ (pc = "tailing" \/ ev.op = "line" \/ processed_lines # {}) =>
          /\ StartedKey \in DOMAIN last_alerts
          /\ \A k \in DOMAIN last_alerts : last_alerts[StartedKey] <= last_alerts[k]
          /\ \A p \in ErrorNames : \A i \in DOMAIN error_counts[p] :
                 last_alerts[StartedKey] <= error_counts[p][i]

\* C14 witness: a line was read and classified, the startup alert is on record
C14_LineAfterStartup ==
    /\ ev.op = "line"
    /\ ev.type # None
    /\ StartedKey \in DOMAIN last_alerts
    /\ last_alerts[StartedKey] <= ev.at

(* C15: the tailer starts at the end of the file: when the tail loop runs,  *)
(* no line that was in the file before it was opened lies after the read    *)
(* position, every line the loop reads was appended after the start, and    *)
(* when the file has been opened nothing was classified, counted or alerted *)
(* on but the startup notification.                                         *)
C15_HistoryNotReplayed ==
    /\ [](pc = "tailing" => unread = <<>>)
    /\ [](ev.op = "discover" =>
              /\ processed_lines = {}
              /\ \A p \in ErrorNames : error_counts[p] = <<>>
              /\ DOMAIN last_alerts \subseteq {StartedKey})
    /\ [][ev'.op = "line" => (unread = <<>> /\ unread' = <<>>)]_vars

\* C15 witness: the file held an error line and a warning line when it was
\* opened; both were skipped and none of them was processed
C15_BacklogSkipped ==
    /\ pc = "tailing"
    /\ ev.op = "discover"
    /\ ev.skipped = 2
    /\ unread = <<>>
    /\ processed_lines = {}
    /\ \A p \in ErrorNames : error_counts[p] = <<>>

(* C16: a line whose hash is in processed_lines when it is read is dropped  *)
(* before classification: the step yields no entry, leaves error_counts,    *)
(* last_alerts and processed_lines as they are, offers no alert and         *)
(* attempts no channel.                                                     *)
C16_SeenLineDropped ==
    [][(ev'.op = "line" /\ LineHash(ev'.line) \in processed_lines) =>
          /\ ev'.dropped
          /\ ev'.type = None /\ ev'.pattern = None
          /\ error_counts' = error_counts
          /\ last_alerts' = last_alerts
          /\ processed_lines' = processed_lines
          /\ ~ev'.alert.offered
          /\ ev'.alert.attempts = <<>>]_vars

\* C16 witness: a line that matches an error rule was dropped as already seen
\* while one more occurrence would have crossed the threshold
C16_MatchingLineDropped ==
    /\ ev.op = "line"
    /\ ev.dropped
    /\ \E k \in MatchingRules(ERROR_PATTERNS, ev.line) :
          Len(error_counts[ERROR_PATTERNS[k].name]) = error_threshold - 1
    /\ monitor_errors

\* the lines that differ from the line in letter case only
RECURSIVE CaseVariants(_)
CaseVariants(line) ==
    IF line = <<>> THEN {<<>>}
    ELSE {<<w>> \o rest : w \in {x \in Words : Lower(x) = Lower(Head(line))},
                          rest \in CaseVariants(Tail(line))}

(* C17: classification is case-insensitive: every line that differs only   *)
(* in letter case from a line the monitor classified gets the same severity *)
(* and the same pattern, and a line that was given no classification has no *)
(* case variant that is classified.                                         *)
C17_CaseInsensitive ==
    Classified =>
        \A other \in CaseVariants(ev.line) :
            Classify(other, monitor_errors, monitor_warnings)
                = [type |-> ev.type, pattern |-> ev.pattern]

\* C17 witness: an upper-case ERROR line with a stream keyword was classified
\* stream_error and has variants in title case and in lower case
C17_UpperCaseClassified ==
    /\ Classified
    /\ ev.type = "error" /\ ev.pattern = "stream_error"
    /\ ev.line[1] = "ERROR"
    /\ \E other \in CaseVariants(ev.line) :
          other[1] = "error" /\ other[2] = "Stream"
    /\ \E other \in CaseVariants(ev.line) :
          other[1] = "Error" /\ other[2] = "stream"

(* C18, as stated: a check of a pattern at time at evicts exactly the       *)
(* timestamps ts with at - ts > window, so that a timestamp exactly window  *)
(* old is retained and counted, then appends at, and compares the length of *)
(* the resulting list with the threshold.  check_error_threshold keeps a    *)
(* timestamp only if ts > at - window: one that is exactly window old is    *)
(* evicted.                                                                 *)
C18_BoundaryRetained ==
    [][(ev'.op = "line" /\ ev'.type = "error") =>
          LET Retained(ts) == ev'.at - ts <= time_window
              window == Append(SelectSeq(error_counts[ev'.pattern], Retained),
                               ev'.at)
          IN  /\ error_counts'[ev'.pattern] = window
              /\ ev'.crossed <=> (Len(window) >= error_threshold)]_vars

(* C19, as stated: in every reachable state every timestamp retained in any *)
(* pattern's list lies within [now - window, now], now being the current    *)
(* time.  Eviction happens only when the pattern occurs again, so a list    *)
(* keeps its timestamps while time passes.                                  *)
C19_RetainedWithinWindowOfNow ==
    \A p \in ErrorNames : \A i \in DOMAIN error_counts[p] :
        /\ clock - time_window <= error_counts[p][i]
        /\ error_counts[p][i] <= clock

(* C19, amended: when an occurrence of a pattern has been recorded at time  *)
(* at, every timestamp retained in that pattern's list lies within          *)
(* [at - window, at], at being the last one; in every reachable state the   *)
(* retained timestamps are in ascending order and none is later than the    *)
(* current time.                                                            *)
C19_RetainedWithinWindowOfCheck ==
    /\ \A p \in ErrorNames :
          /\ \A i \in DOMAIN error_counts[p] : error_counts[p][i] <= clock
          /\ \A i \in DOMAIN error_counts[p] : \A j \in DOMAIN error_counts[p] :
                 i < j => error_counts[p][i] <= error_counts[p][j]
    /\ (ev.op = "line" /\ ev.type = "error") =>
          LET list == error_counts[ev.pattern]
          IN  /\ list # <<>> /\ list[Len(list)] = ev.at
              /\ \A i \in DOMAIN list :
                    ev.at - time_window <= list[i] /\ list[i] <= ev.at

\* C19 witness: an occurrence was recorded, a timestamp that had gone stale
\* while time passed was evicted and an earlier one inside the window retained
C19_EvictedAndRetained ==
    /\ ev.op = "line" /\ ev.type = "error"
    /\ ev.evicted > 0
    /\ Len(error_counts[ev.pattern]) >= 2
    /\ error_counts[ev.pattern][1] < ev.at

(* C20: the threshold check does not suppress repeated crossings: every     *)
(* occurrence of a pattern that finds at least error_threshold - 1 earlier  *)
(* occurrences still inside the window reports a crossing and is offered to *)
(* the cooldown gate under the pattern's key, whatever last_alerts holds    *)
(* and whether earlier crossings were sent or suppressed.                   *)
C20_EveryCrossingOffered ==
    [][(ev'.op = "line" /\ ev'.type = "error") =>
          LET earlier == error_counts[ev'.pattern]
              inside == Cardinality({i \in DOMAIN earlier :
                                        clock - earlier[i] < time_window})
          IN  (inside + 1 >= error_threshold) =>
                  /\ ev'.crossed
                  /\ ev'.alert.offered
                  /\ ev'.alert.key = AlertKey("error", ErrorTitle(ev'.pattern))
                  /\ ev'.alert.at = clock]_vars

\* C20 witness: an occurrence past the threshold was offered again and the
\* gate suppressed it
C20_RepeatedCrossingSuppressedByGate ==
    /\ ev.op = "line" /\ ev.type = "error"
    /\ Len(error_counts[ev.pattern]) > error_threshold
    /\ ev.crossed
    /\ ev.alert.offered /\ ~ev.alert.sent

(* C21, as stated: the cooldown record of a key is written only after a     *)
(* delivery was attempted on some channel: a step that writes last_alerts   *)
(* has attempted at least one channel.  send_alert writes                   *)
(* last_alerts[alert_key] right after the gate, before it looks at any      *)
(* channel flag, so the record is written also when no channel is enabled.  *)
C21_RecordedOnlyAfterAttempt ==
    [][last_alerts' # last_alerts => ev'.alert.attempts # <<>>]_vars

\* no rule of a table that is switched on matches the line
NoEnabledRuleMatches(line) ==
    /\ monitor_errors => MatchingRules(ERROR_PATTERNS, line) = {}
    /\ monitor_warnings => MatchingRules(WARNING_PATTERNS, line) = {}

(* C22: reading a line that matches no enabled rule yields no entry, leaves *)
(* every list of error_counts and last_alerts as they are, offers no alert  *)
(* and attempts no channel, and the tail loop goes on; only processed_lines *)
(* may change, by the hash of the line or by a clear.                       *)
C22_UnmatchedLineNoEffect ==
    [][(ev'.op = "line" /\ NoEnabledRuleMatches(ev'.line)) =>
          /\ ev'.type = None /\ ev'.pattern = None
          /\ error_counts' = error_counts
          /\ last_alerts' = last_alerts
          /\ ~ev'.alert.offered
          /\ ev'.alert.attempts = <<>>
          /\ pc' = pc
          /\ \/ processed_lines' = processed_lines
             \/ processed_lines' = processed_lines \cup {LineHash(ev'.line)}
             \/ processed_lines' = {}]_vars

\* C22 witness: with both tables on, a line that passed de-duplication matched
\* no rule; its hash was added to processed_lines
C22_UnmatchedLineSeen ==
    /\ Classified
    /\ monitor_errors /\ monitor_warnings
    /\ NoEnabledRuleMatches(ev.line)
    /\ ev.type = None
    /\ LineHash(ev.line) \in processed_lines

(* C23: processed_lines is bounded by its capacity and cleared wholesale:   *)
(* it never holds more hashes than the capacity, a new hash read when the   *)
(* set is full empties the set in that step, a new hash read when there is  *)
(* room is added, and no step removes some hashes and keeps others.         *)
C23_ClearedWholesale ==
    /\ [](Cardinality(processed_lines) <= MaxProcessedLines)
    /\ [][(ev'.op = "line" /\ LineHash(ev'.line) \notin processed_lines) =>
             IF Cardinality(processed_lines) = MaxProcessedLines
             THEN processed_lines' = {}
             ELSE processed_lines' = processed_lines \cup {LineHash(ev'.line)}]_vars
    /\ [][processed_lines \subseteq processed_lines' \/ processed_lines' = {}]_vars

\* C23 witness: the line just read found the set full and the set is empty
C23_FullSetCleared ==
    /\ Classified
    /\ ev.type # None
    /\ processed_lines = {}

CrashedKey == "critical:Sentarr Crashed"

\* the keys of the alerts the monitor can generate
AllKeys ==
    {AlertKey("error", ErrorTitle(p)) : p \in ErrorNames}
        \cup {AlertKey("warning", WarningTitle(p)) : p \in WarningNames}
        \cup {StartedKey, CrashedKey}

(* C24: last_alerts is never pruned: a step keeps every recorded key, the   *)
(* time recorded for a key never moves backwards, and every recorded key is *)
(* one of the eleven keys of the fixed pattern set: one per error pattern,  *)
(* one per warning pattern, the started and the crashed alert.              *)
C24_RecordOnlyGrows ==
    /\ [](DOMAIN last_alerts \subseteq AllKeys /\ Cardinality(AllKeys) = 11)
    /\ [][/\ DOMAIN last_alerts \subseteq DOMAIN last_alerts'
          /\ \A k \in DOMAIN last_alerts : last_alerts[k] <= last_alerts'[k]]_vars

\* C24 witness: three keys are on record and the last alert renewed the
\* record of its key
C24_ThreeKeysOneRenewed ==
    /\ Cardinality(DOMAIN last_alerts) >= 3
    /\ ev.alert.sent
    /\ ev.alert.prev # NoTime
    /\ ev.alert.prev < last_alerts[ev.alert.key]

(* C25, as stated: title and message of a generated alert are a function of *)
(* the pattern and the severity alone: two entries of the same pattern and  *)
(* severity processed one after the other yield alerts with the same title  *)
(* and the same message.  The message of an error alert carries the count   *)
(* of the window, the message of a warning alert is the text of the line.   *)
C25_SamePatternSameAlertText ==
    [][( /\ ev.op = "line" /\ ev.alert.offered
         /\ ev'.op = "line" /\ ev'.alert.offered
         /\ ev'.pattern = ev.pattern /\ ev'.type = ev.type )
        => /\ ev'.alert.title = ev.alert.title
           /\ ev'.alert.message = ev.alert.message]_vars

(* C25, amended: the title and the key of a generated alert are a function  *)
(* of the pattern and the severity alone; the message of an error alert is  *)
(* built from the count of the pattern's window and the window length, the  *)
(* message of a warning alert is the text of the line that triggered it.    *)
C25_TitleFromPatternMessageFromEntry ==
    (ev.op = "line" /\ ev.alert.offered) =>
        /\ ev.alert.severity = ev.type
        /\ ev.type = "error" =>
              /\ ev.alert.title = "Multiple " \o TitleCase(ev.pattern) \o " Detected"
              /\ ev.alert.message
                    = "Detected " \o ToString(Len(error_counts[ev.pattern]))
                        \o " errors in the last " \o ToString(time_window)
                        \o " minutes"
        /\ ev.type = "warning" =>
              /\ ev.alert.title = "Plex Warning: " \o TitleCase(ev.pattern)
              /\ ev.alert.message = Text(ev.line)
        /\ ev.alert.key = ev.type \o ":" \o ev.alert.title

\* C25 witness: an error alert generated past the threshold, its message
\* carries a count that differs from the one of the first crossing
C25_MessageCarriesCount ==
    /\ ev.op = "line" /\ ev.type = "error" /\ ev.alert.offered
    /\ Len(error_counts[ev.pattern]) = error_threshold + 1
    /\ ev.alert.message # ErrorMessage(error_threshold)
    /\ ev.alert.title = ErrorTitle(ev.pattern)

(* C26: an alert suppressed by the cooldown gate attempts no channel and    *)
(* leaves last_alerts as it is, so the time recorded for a key is always    *)
(* the time of the last alert of the key that passed the gate, and an alert *)
(* of the key offered alert_cooldown minutes or more after that time is     *)
(* dispatched, however many were suppressed in between.                     *)
C26_SuppressedLeavesRecord ==
    [][ev'.alert.offered =>
          /\ ~ev'.alert.sent =>
                /\ ev'.alert.attempts = <<>>
                /\ last_alerts' = last_alerts
                /\ ev'.alert.prev = last_alerts[ev'.alert.key]
                /\ ev'.alert.at - ev'.alert.prev < alert_cooldown
          /\ (ev'.alert.prev # NoTime
                /\ ev'.alert.at - ev'.alert.prev >= alert_cooldown) =>
                /\ ev'.alert.sent
                /\ last_alerts'[ev'.alert.key] = ev'.alert.at
          /\ \A k \in DOMAIN last_alerts' \ {ev'.alert.key} :
                k \in DOMAIN last_alerts /\ last_alerts'[k] = last_alerts[k]]_vars

\* C26 witness: in a stream of crossings of one pattern the alert is sent
\* again exactly alert_cooldown minutes after the last one sent, with
\* occurrences in between that were offered and suppressed
C26_ReopenedAfterLastDispatched ==
    /\ ev.op = "line" /\ ev.type = "error"
    /\ ev.alert.sent
    /\ ev.alert.prev # NoTime
    /\ ev.alert.at - ev.alert.prev = alert_cooldown
    /\ Len(error_counts[ev.pattern]) > error_threshold
    /\ error_counts[ev.pattern][1] < ev.at

(* C27: de-duplication precedes counting: a line adds a timestamp to a list *)
(* of error_counts only if its hash is not in processed_lines when it is    *)
(* read, the step that counts it puts its hash into the set unless the set  *)
(* is cleared in that step, and a recorded hash stays in the set until the  *)
(* set is cleared; so between two clears lines with identical text add one  *)
(* timestamp at most.                                                       *)
C27_CountedOncePerGeneration ==
    /\ [][error_counts' # error_counts =>
             /\ ev'.op = "line"
             /\ LineHash(ev'.line) \notin processed_lines
             /\ \/ LineHash(ev'.line) \in processed_lines'
                \/ (processed_lines' = {}
                      /\ Cardinality(processed_lines) = MaxProcessedLines)]_vars
    /\ [][(ev'.op = "line" /\ ev'.line = ev.line /\ ev.op = "line"
              /\ processed_lines # {}) =>
             (ev'.dropped /\ error_counts' = error_counts)]_vars
    /\ [][\A h \in processed_lines :
             h \in processed_lines' \/ processed_lines' = {}]_vars

\* C27 witness: the same error line was read twice in a row with no clear in
\* between; it is counted once, one short of the threshold
C27_IdenticalLineCountedOnce ==
    /\ ev.op = "line" /\ ev.dropped
    /\ processed_lines = {LineHash(ev.line)}
    /\ MatchesDatabaseError(ev.line)
    /\ error_threshold > 1
    /\ Len(error_counts["database_error"]) = 1
    /\ ~(\E k \in DOMAIN last_alerts : k = DatabaseKey)

\* the number of timestamps held in all lists of error_counts together
TotalCounted ==
    Cardinality(UNION {{<<p, i>> : i \in DOMAIN error_counts[p]} : p \in ErrorNames})

(* C28: the lists of error_counts are independent per pattern: recording an *)
(* occurrence of a pattern changes the list of that pattern only, a warning *)
(* entry changes no list, and a crossing is reported exactly when the list  *)
(* of the pattern itself holds error_threshold timestamps or more, whatever *)
(* the other lists hold.                                                    *)
C28_WindowsIndependent ==
    [][ /\ (ev'.op = "line" /\ ev'.type = "error") =>
              /\ \A q \in ErrorNames \ {ev'.pattern} :
                     error_counts'[q] = error_counts[q]
              /\ error_counts'[ev'.pattern] # error_counts[ev'.pattern]
              /\ ev'.crossed <=> (Len(error_counts'[ev'.pattern]) >= error_threshold)
              /\ ev'.alert.offered <=> ev'.crossed
        /\ ~(ev'.op = "line" /\ ev'.type = "error") =>
              error_counts' = error_counts ]_vars

\* C28 witness: occurrences of two patterns add up to the threshold or more,
\* neither list reaches it, and the occurrence just recorded is not a crossing
C28_SumAboveThresholdNoCrossing ==
    /\ ev.op = "line" /\ ev.type = "error"
    /\ TotalCounted >= error_threshold + 1
    /\ \A p \in ErrorNames : Len(error_counts[p]) < error_threshold
    /\ error_counts["stream_error"] # <<>>
    /\ error_counts["database_error"] # <<>>
    /\ ~ev.crossed /\ ~ev.alert.offered

\* severity and title of every alert process_log_entry can generate
LineAlerts ==
    {<<"error", ErrorTitle(p)>> : p \in ErrorNames}
        \cup {<<"warning", WarningTitle(p)>> : p \in WarningNames}

\* the key under which the alert of an entry is expected on record
EntryKey(type, pattern) ==
    IF type = "error"
    THEN "error:Multiple " \o TitleCase(pattern) \o " Detected"
    ELSE "warning:Plex Warning: " \o TitleCase(pattern)

(* C29: the cooldown is independent per key: the alerts of two different    *)
(* patterns have different keys, the same title under two severities gives  *)
(* two keys, and an alert generated for an entry is suppressed only if an   *)
(* alert of the same pattern and severity was dispatched less than          *)
(* alert_cooldown minutes before; what is on record for other patterns      *)
(* never suppresses it.                                                     *)
C29_CooldownPerKey ==
    /\ [](\A a \in LineAlerts : \A b \in LineAlerts :
             /\ a # b => AlertKey(a[1], a[2]) # AlertKey(b[1], b[2])
             /\ AlertKey("error", a[2]) # AlertKey("warning", a[2]))
    /\ [][(ev'.op = "line" /\ ev'.alert.offered) =>
             LET own == EntryKey(ev'.type, ev'.pattern)
             IN  ev'.alert.sent <=>
                    (own \notin DOMAIN last_alerts
                        \/ clock - last_alerts[own] >= alert_cooldown)]_vars

\* C29 witness: the stream_error alert is dispatched while the database_error
\* alert, dispatched less than alert_cooldown minutes before, is on record
C29_OtherPatternNotSuppressed ==
    /\ ev.op = "line" /\ ev.pattern = "stream_error"
    /\ ev.alert.sent /\ ev.alert.prev = NoTime
    /\ DatabaseKey \in DOMAIN last_alerts
    /\ ev.at - last_alerts[DatabaseKey] < alert_cooldown

(* C30: when the discovery of the log files finds nothing, run() returns    *)
(* right after the startup alert was offered: the process is done, no file  *)
(* is tailed, no line was or will be processed, the crashed alert is not    *)
(* attempted, and nothing happens afterwards.                               *)
C30_NoFileNoTail ==
    /\ [][(ev'.op = "discover" /\ ev'.found = "nothing") =>
             /\ pc' = "done"
             /\ ev.op = "start" /\ ev.alert.offered
             /\ ev.alert.title = "Sentarr Started"
             /\ last_alerts' = last_alerts]_vars
    /\ []((ev.op = "discover" /\ ev.found = "nothing") =>
             /\ pc = "done"
             /\ processed_lines = {}
             /\ \A p \in ErrorNames : error_counts[p] = <<>>
             /\ DOMAIN last_alerts = {StartedKey})
    /\ [][pc = "done" => FALSE]_vars

\* C30 witness: the run is over after a discovery that found no file while the
\* log directory held lines to read
C30_EndedWithoutFile ==
    /\ pc = "done"
    /\ ev.op = "discover" /\ ev.found = "nothing"
    /\ StartedKey \in DOMAIN last_alerts
    /\ CrashedKey \notin DOMAIN last_alerts

====
